---- MODULE Spec2Model ----
(***************************************************************************)
(* MercariSpy: the novelty store (product_storage.py) and the filtering    *)
(* pipeline (MercariMonitor.process_query in main.py).                     *)
(*                                                                         *)
(* The store keeps a dict product id -> entry in memory and a JSON         *)
(* snapshot on disk; save_to_file rotates the snapshot through a backup    *)
(* path.  Every file-system call of save_to_file is one step of the model, *)
(* so that an I/O error or a process crash can fall between any two of     *)
(* them.  Time is counted in days.                                         *)
(***************************************************************************)
EXTENDS Integers, Sequences, FiniteSets, TLC

\* ---------------------------------------------------------------- bounds
MaxIds == 2
MaxCands == 2
\* I/O errors and process crashes injected in one behaviour
MaxFailures == 1

\* ProductStorage.max_storage_days
max_storage_days == 7

Ids == 1..MaxIds

\* The days on which the clock is read: an entry gets the ages 0, 1,
\* max_storage_days and max_storage_days + 1.
Times == {0, 1, max_storage_days + 1}

\* What the image of a candidate does to ImageFilter.filter_background as
\* process_query calls it: it returns True, it returns False, or the call
\* raises.
ImageKinds == {"pass", "reject", "raise"}

\* A product record as the scraper hands it to process_query.
Candidates == [id : Ids, image : ImageKinds]

\* cleanup_old_products(max_days): None selects max_storage_days.
NoneArg == -1
MaxDaysArgs == {NoneArg, 1}

\* ------------------------------------------------------------ dict helpers
EmptyMap == <<>>

Put(m, k, v) == [x \in DOMAIN m \cup {k} |-> IF x = k THEN v ELSE m[x]]

Restrict(m, S) == [x \in S |-> m[x]]

\* ------------------------------------------------------------- disk files
\* A path holds no file, a file whose JSON text is incomplete (opened for
\* writing and not yet, or never, dumped completely), or a complete snapshot.
\* The text of a complete snapshot is a JSON object, written here as the set
\* of its <<key, value>> members.
NoText == {}
Absent == [kind |-> "absent", products |-> NoText]
Partial == [kind |-> "partial", products |-> NoText]

\* json.dump of a dict with string keys (product_storage.py:166)
json_dump(obj) == {<<k, obj[k]>> : k \in DOMAIN obj}

\* json.load of a JSON object (product_storage.py:29)
json_load(text) ==
    [k \in {member[1] : member \in text} |->
        (CHOOSE member \in text : member[1] = k)[2]]

\* Mutant: the entries are written with their id alone.
DumpedProductsIdsOnly(m) == json_dump([k \in DOMAIN m |-> json_dump([id |-> m[k].id])])

\* data['products'] as written (product_storage.py:154-166) and as read back
\* (product_storage.py:29-30): a JSON object of JSON objects.
DumpedProducts(m) == json_dump([k \in DOMAIN m |-> json_dump(m[k])])
ParsedProducts(text) ==
    LET outer == json_load(text)
    IN  [k \in DOMAIN outer |-> json_load(outer[k])]

Snapshot(m) == [kind |-> "ok", products |-> DumpedProducts(m)]

\* Files save_to_file never writes, left at storage_path by something else:
\* a JSON object without a "products" key; valid JSON that is not an object
\* (a list, a string, a number); an object whose "products" is null or a
\* number; an object whose "products" is a list or a string.
NoProductsKey == [kind |-> "nokey", products |-> NoText]
NotAnObject == [kind |-> "notobject", products |-> NoText]
ProductsNull == [kind |-> "nullproducts", products |-> NoText]
ProductsList == [kind |-> "listproducts", products |-> NoText]
ForeignFiles == {NoProductsKey, NotAnObject, ProductsNull, ProductsList}

Exists(f) == f.kind # "absent"
IsComplete(f) == f.kind = "ok"

VARIABLES
    now,            \* datetime.now(), in days
    products,       \* ProductStorage.products
    storage_file,   \* the file at storage_path
    backup_file,    \* the file at storage_path.with_suffix('.backup.json')
    op,             \* the operation in progress: "down" (no process), "idle", or a method
    spc,            \* position inside save_to_file, "none" outside it
    enabled,        \* config["filtering"]["background_filter_enabled"]
    pq_products,    \* process_query: the scraper's products the loop has reached
    new_products,   \* process_query: new_products
    removed_count,  \* cleanup_old_products: removed_count, the value it returns
    failures,       \* I/O errors and crashes injected so far
    known0,         \* history: the dict when the running process_query started
    handed,         \* history: ids in the lists handed to the notifier by earlier calls
    live,           \* history: the ids of handed whose entry has been in the dict ever since
    pre,            \* history: the two files when the running save_to_file was entered
    track,          \* whether handed and live are recorded in this behaviour
    products_type,  \* type(self.products): "dict", or "list" after a load of a foreign file
    flt,            \* the running call of ImageFilter.filter_background / analyze_image
    cyc,            \* the running call of MercariMonitor.run_once
    conc,           \* two process_query executions sharing the store
    ntf,            \* the running call of TelegramNotifier.send_notifications
    swp,            \* a sweep over entries whose added_at may not parse
    shut,           \* the run of main(): construction, monitoring, close
    smp             \* the border sampling of one image

vars == <<now, products, storage_file, backup_file, op, spc, enabled, pq_products,
          new_products, removed_count, failures, known0, handed, live, pre, track,
          products_type, flt, cyc, conc, ntf, swp, shut, smp>>

disk == <<storage_file, backup_file>>
pqvars == <<pq_products, new_products, known0>>
hist == <<handed, live, track>>
others == <<ntf, swp, shut, smp>>
calls == <<flt, cyc, conc, others>>

NoPre == [file |-> Absent, backup |-> Absent, saving |-> FALSE]

\* ------------------------------------------------------- store operations
\* Mutant: the membership test never finds the id.
is_product_known_never(m, product_id) == FALSE

\* product_storage.py:72-74
is_product_known(m, product_id) == product_id \in DOMAIN m

\* product_storage.py:59-67, the entry add_product stores.  The records of
\* the model carry an id and what the filter makes of the image, and no
\* title, price, url or image_url, so product.get yields its defaults.
NewEntry(product, t) ==
    [id |-> product.id, title |-> "", price |-> 0, url |-> "",
     image_url |-> "", added_at |-> t, last_seen |-> t]

\* Mutant: add_product stores nothing.
AddedProductsNothing(m, product, t) == m

\* Mutant: add_product overwrites an entry it already holds.
AddedProductsOverwrite(m, product, t) == Put(m, product.id, NewEntry(product, t))

\* product_storage.py:54-67, the dict after add_product (before its save)
AddedProducts(m, product, t) ==
    IF product.id \in DOMAIN m THEN m ELSE Put(m, product.id, NewEntry(product, t))

\* product_storage.py:140-143, the dict without the collected ids
RemoveAll(m, gone) == Restrict(m, DOMAIN m \ gone)

\* Mutant: the sweep also takes the entry whose age is exactly max_days.
products_to_remove_inclusive(m, max_days, t) ==
    LET days == IF max_days = NoneArg THEN max_storage_days ELSE max_days
        cutoff == t - days
    IN  {i \in DOMAIN m : m[i].added_at <= cutoff}

\* product_storage.py:123-138, the ids cleanup_old_products collects
products_to_remove(m, max_days, t) ==
    LET days == IF max_days = NoneArg THEN max_storage_days ELSE max_days
        cutoff == t - days
    IN  {i \in DOMAIN m : m[i].added_at < cutoff}

InitMemory ==
    /\ now = 0
    /\ products = EmptyMap
    /\ op = "down"
    /\ spc = "none"
    /\ enabled \in BOOLEAN
    /\ pq_products = <<>>
    /\ new_products = <<>>
    /\ removed_count = 0
    /\ failures = 0
    /\ known0 = EmptyMap
    /\ handed = {}
    /\ live = {}
    /\ pre = NoPre

InitStore ==
    /\ InitMemory
    /\ storage_file = Absent
    /\ backup_file = Absent

\* No filter call, no run_once and no second execution is in progress.
NoFilter == [pc |-> "none"]
NoCycle == [pc |-> "none"]
NoConc == [pc |-> "none"]
NoNotify == [pc |-> "none"]
NoSweep == [pc |-> "none"]
NoMain == [pc |-> "none"]
NoSample == [pc |-> "none"]

Quiet ==
    /\ products_type = "dict"
    /\ flt = NoFilter
    /\ cyc = NoCycle
    /\ conc = NoConc
    /\ ntf = NoNotify
    /\ swp = NoSweep
    /\ shut = NoMain
    /\ smp = NoSample

Init == InitStore /\ track = FALSE /\ Quiet

IdsOf(s) == {s[k].id : k \in DOMAIN s}

\* History: the list in new_products has been handed to the notifier.
RecordHandOver ==
    /\ handed' = IF track THEN handed \cup IdsOf(new_products) ELSE handed
    /\ live' = IF track THEN live \cup IdsOf(new_products) ELSE live
    /\ UNCHANGED track

\* An injected I/O error counts against MaxFailures.
Fault(ok) ==
    IF ok THEN failures' = failures
    ELSE /\ failures < MaxFailures
         /\ failures' = failures + 1

\* Entering save_to_file (product_storage.py:151-158).
EnterSave ==
    /\ spc' = "rename"
    /\ pre' = [file |-> storage_file, backup |-> backup_file, saving |-> TRUE]

\* ---------------------------------------------------------- construction
\* What _load_existing_products reads from an existing file
\* (product_storage.py:27-31, 36-38): a file that cannot be read or parsed
\* leaves the dict empty.
LoadedProducts(f, readable) ==
    IF readable /\ IsComplete(f) THEN ParsedProducts(f.products) ELSE EmptyMap

\* The type of self.products after _load_existing_products on an existing
\* file.  data.get('products', {}) is assigned as it is (line 30); the
\* handler of lines 36-38 resets it to {} only if something raised: open or
\* json.load, data.get on a value that is not a dict, or len() in the log
\* call of line 31 on null or a number.  A list or a string has a len().
LoadedType(f, readable) ==
    IF readable /\ f = ProductsList THEN "list" ELSE "dict"

\* ProductStorage.__init__ and _load_existing_products (product_storage.py:16-38).
\* readable = FALSE: open or json.load raises on an existing file.
Construct(readable) ==
    /\ op = "down"
    /\ UNCHANGED <<now, disk, enabled, calls, pqvars, removed_count, handed, track>>
    /\ IF Exists(storage_file)
       THEN /\ Fault(readable)
            /\ products' = LoadedProducts(storage_file, readable)
            /\ products_type' = LoadedType(storage_file, readable)
            /\ live' = live \cap DOMAIN products'
            /\ op' = "loaded"
            /\ UNCHANGED <<spc, pre>>
       ELSE /\ readable
            /\ products' = EmptyMap
            /\ products_type' = "dict"
            /\ live' = {}
            /\ op' = "init"
            /\ EnterSave
            /\ UNCHANGED failures

\* The process dies (crash, kill, power loss): memory is gone, the disk stays.
Crash ==
    /\ op # "down"
    /\ failures < MaxFailures
    /\ failures' = failures + 1
    /\ op' = "down"
    /\ spc' = "none"
    /\ products' = EmptyMap
    /\ pq_products' = <<>>
    /\ new_products' = <<>>
    /\ known0' = EmptyMap
    /\ removed_count' = 0
    /\ pre' = NoPre
    /\ IF op = "notify" THEN RecordHandOver ELSE UNCHANGED hist
    /\ UNCHANGED <<now, disk, enabled, products_type, calls>>

\* The clock moves on to a later reading, between two operations.
Tick ==
    /\ op \in {"down", "idle"}
    /\ \E t \in Times : t > now /\ now' = t
    /\ UNCHANGED <<products, disk, op, spc, enabled, products_type, calls, pqvars, removed_count, failures,
                   hist, pre>>

\* ------------------------------------------------------------ save_to_file
\* product_storage.py:161-163.  ok = FALSE: rename raises.
SaveRename(ok) ==
    /\ spc = "rename"
    /\ IF Exists(storage_file)
       THEN /\ Fault(ok)
            /\ IF ok
               THEN /\ backup_file' = storage_file
                    /\ storage_file' = Absent
                    /\ spc' = "open"
               ELSE /\ spc' = "except"
                    /\ UNCHANGED disk
       ELSE /\ ok
            /\ spc' = "open"
            /\ UNCHANGED <<disk, failures>>
    /\ UNCHANGED <<now, products, op, enabled, products_type, calls, pqvars, removed_count, hist, pre>>

\* product_storage.py:165, open(storage_path, 'w') creates or truncates the
\* file.  ok = FALSE: open raises and creates nothing.
SaveOpen(ok) ==
    /\ spc = "open"
    /\ Fault(ok)
    /\ IF ok
       THEN /\ storage_file' = Partial
            /\ spc' = "dump"
       ELSE /\ spc' = "except"
            /\ UNCHANGED storage_file
    /\ UNCHANGED <<now, products, backup_file, op, enabled, products_type, calls, pqvars, removed_count,
                   hist, pre>>

\* product_storage.py:166, json.dump and the close of the with block.
\* ok = FALSE: the write raises part-way and the file keeps what was written.
SaveDump(ok) ==
    /\ spc = "dump"
    /\ Fault(ok)
    /\ IF ok
       THEN /\ storage_file' = Snapshot(products)
            /\ spc' = "unlink"
       ELSE /\ spc' = "except"
            /\ UNCHANGED storage_file
    /\ UNCHANGED <<now, products, backup_file, op, enabled, products_type, calls, pqvars, removed_count,
                   hist, pre>>

\* Mutant: the backup is left in place after a successful write.
SaveUnlinkKeepsBackup(ok) ==
    /\ spc = "unlink"
    /\ ok
    /\ spc' = "returned"
    /\ UNCHANGED <<now, products, disk, op, enabled, products_type, calls, pqvars, removed_count, failures,
                   hist, pre>>

\* product_storage.py:168-173.  ok = FALSE: unlink raises.
SaveUnlink(ok) ==
    /\ spc = "unlink"
    /\ IF Exists(backup_file)
       THEN /\ Fault(ok)
            /\ IF ok
               THEN /\ backup_file' = Absent
                    /\ spc' = "returned"
               ELSE /\ spc' = "except"
                    /\ UNCHANGED backup_file
       ELSE /\ ok
            /\ spc' = "returned"
            /\ UNCHANGED <<backup_file, failures>>
    /\ UNCHANGED <<now, products, storage_file, op, enabled, products_type, calls, pqvars, removed_count,
                   hist, pre>>

\* product_storage.py:175-181, the except block: the backup is renamed over
\* storage_path (Path.rename replaces an existing target) and the error is
\* raised again.  ok = FALSE: this rename raises, and that error propagates.
SaveExcept(ok) ==
    /\ spc = "except"
    /\ IF Exists(backup_file)
       THEN /\ Fault(ok)
            /\ IF ok
               THEN /\ storage_file' = backup_file
                    /\ backup_file' = Absent
               ELSE UNCHANGED disk
       ELSE /\ ok
            /\ UNCHANGED <<disk, failures>>
    /\ spc' = "raised"
    /\ UNCHANGED <<now, products, op, enabled, products_type, calls, pqvars, removed_count, hist, pre>>

\* save_to_file has returned or raised: control is back in the caller.
LeaveSave ==
    /\ spc \in {"returned", "raised"}
    /\ spc' = "none"
    /\ pre' = NoPre

\* _create_empty_storage returns into _load_existing_products
\* (product_storage.py:34-42): an error of the save is caught and the dict reset.
ConstructDone ==
    /\ op = "init"
    /\ LeaveSave
    /\ products' = EmptyMap
    /\ op' = "idle"
    /\ UNCHANGED <<now, disk, enabled, products_type, calls, pqvars, removed_count, failures, hist>>

\* _load_existing_products has read the file: __init__ returns
\* (product_storage.py:22).
LoadDone ==
    /\ op = "loaded"
    /\ op' = "idle"
    /\ UNCHANGED <<now, products, disk, spc, enabled, products_type, calls, pqvars,
                   removed_count, failures, hist, pre>>

\* ------------------------------------------------------ direct store calls
\* Mutant: add_product changes the dict and does not save.
AddProductInMemoryOnly(product) ==
    /\ op = "idle"
    /\ products' = AddedProducts(products, product, now)
    /\ UNCHANGED <<now, disk, op, spc, enabled, products_type, calls, pqvars, removed_count, failures, hist, pre>>

\* add_product (product_storage.py:44-70) called on its own.
AddProduct(product) ==
    /\ op = "idle"
    /\ products' = AddedProducts(products, product, now)
    /\ IF is_product_known(products, product.id)
       THEN UNCHANGED <<op, spc, pre>>
       ELSE /\ op' = "add"
            /\ EnterSave
    /\ UNCHANGED <<now, disk, enabled, products_type, calls, pqvars, removed_count, failures, hist>>

\* product_storage.py:69-70
AddProductDone ==
    /\ op = "add"
    /\ LeaveSave
    /\ op' = "idle"
    /\ UNCHANGED <<now, products, disk, enabled, products_type, calls, pqvars, removed_count, failures, hist>>

\* cleanup_old_products (product_storage.py:113-149), what it does to the store
Sweep(max_days) ==
    /\ op = "idle"
    /\ LET gone == products_to_remove(products, max_days, now)
       IN  /\ products' = RemoveAll(products, gone)
           /\ removed_count' = Cardinality(gone)
           /\ live' = live \ gone
           /\ IF Cardinality(gone) > 0
              THEN /\ op' = "cleanup"
                   /\ EnterSave
              ELSE UNCHANGED <<op, spc, pre>>
    /\ UNCHANGED <<now, disk, enabled, products_type, pqvars, failures, handed, track>>

\* cleanup_old_products called on its own
CleanupOldProducts(max_days) == Sweep(max_days) /\ UNCHANGED calls

\* product_storage.py:145-149
CleanupDone ==
    /\ op = "cleanup"
    /\ LeaveSave
    /\ op' = "idle"
    /\ removed_count' = 0
    /\ UNCHANGED <<now, products, disk, enabled, products_type, calls, pqvars, failures, hist>>

\* clear_all_products (product_storage.py:183-199)
ClearAllProducts ==
    /\ op = "idle"
    /\ products' = EmptyMap
    /\ live' = {}
    /\ op' = "clear"
    /\ EnterSave
    /\ UNCHANGED <<now, disk, enabled, products_type, calls, pqvars, removed_count, failures, handed, track>>

\* product_storage.py:194-199
ClearDone ==
    /\ op = "clear"
    /\ LeaveSave
    /\ op' = "idle"
    /\ UNCHANGED <<now, products, disk, enabled, products_type, calls, pqvars, removed_count, failures, hist>>

\* save_to_file (product_storage.py:151-181) called on its own
SaveToFile ==
    /\ op = "idle"
    /\ op' = "save"
    /\ EnterSave
    /\ UNCHANGED <<now, products, disk, enabled, products_type, calls, pqvars, removed_count, failures, hist>>

SaveToFileDone ==
    /\ op = "save"
    /\ LeaveSave
    /\ op' = "idle"
    /\ UNCHANGED <<now, products, disk, enabled, products_type, calls, pqvars, removed_count, failures, hist>>

\* ------------------------------------------------------------ process_query
\* Mutant: the verdict of the background filter is ignored.
IsNewUnfiltered(m, product, filtering) == ~is_product_known(m, product.id)

\* main.py:98-116, whether process_query appends the product to new_products
\* and registers it: its id is not known, and the background filter is off,
\* lets the image pass, or raises (main.py:110-114 logs and goes on).
IsNew(m, product, filtering) ==
    /\ ~is_product_known(m, product.id)
    /\ ~(filtering /\ product.image = "reject")

\* main.py:84-96: the scraper returned its list.  The loop takes the products
\* of that list one by one, so the model draws each product when the loop
\* reaches it; pq_products is the part of the list the loop has reached.
BeginQuery ==
    /\ op = "idle"
    /\ op' = "pq"
    /\ pq_products' = <<>>
    /\ new_products' = <<>>
    /\ known0' = products
    /\ UNCHANGED <<now, products, disk, spc, enabled, products_type, removed_count,
                   failures, hist, pre>>

\* process_query called on its own
ProcessQuery == BeginQuery /\ UNCHANGED calls

\* main.py:97-117, one iteration of the loop, up to the save inside add_product
PqExamine(product) ==
    /\ op = "pq"
    /\ spc = "none"
    /\ Len(pq_products) < MaxCands
    /\ pq_products' = Append(pq_products, product)
    /\ IF IsNew(products, product, enabled)
       THEN /\ new_products' = Append(new_products, product)
            /\ products' = AddedProducts(products, product, now)
            /\ EnterSave
       ELSE UNCHANGED <<new_products, products, spc, pre>>
    /\ UNCHANGED <<now, disk, op, enabled, products_type, calls, known0, removed_count, failures, hist>>

\* History of run_once: a query of the running cycle has ended in the handler
\* of process_query (main.py:129-136), which logs the exception and returns.
NoteHandled(handled) ==
    /\ cyc' = IF handled /\ cyc.pc = "query" THEN [cyc EXCEPT !.failed = TRUE] ELSE cyc
    /\ UNCHANGED <<flt, conc, others>>

\* main.py:89: scraper.search_products raises; the handler ends the call.
ScraperFails ==
    /\ op = "pq"
    /\ spc = "none"
    /\ pq_products = <<>>
    /\ op' = "idle"
    /\ known0' = EmptyMap
    /\ NoteHandled(TRUE)
    /\ UNCHANGED <<now, products, disk, spc, enabled, products_type, pq_products,
                   new_products, removed_count, failures, hist, pre>>

\* Mutant: process_query has no handler; the exception of add_product reaches
\* the handler of run_once, which ends the cycle.
PqAddDonePropagating ==
    /\ op = "pq"
    /\ LeaveSave
    /\ IF spc = "returned"
       THEN UNCHANGED <<op, pqvars, cyc>>
       ELSE /\ op' = "idle"
            /\ pq_products' = <<>>
            /\ new_products' = <<>>
            /\ known0' = EmptyMap
            /\ cyc' = IF cyc.pc = "query"
                      THEN [cyc EXCEPT !.pc = "done", !.failed = TRUE]
                      ELSE cyc
    /\ UNCHANGED <<now, products, disk, enabled, products_type, flt, conc, others,
                   removed_count, failures, hist>>

\* add_product returns into the loop (main.py:117), or its save raised and the
\* handler of process_query ends the call (main.py:129-136).
PqAddDone ==
    /\ op = "pq"
    /\ LeaveSave
    /\ IF spc = "returned"
       THEN UNCHANGED <<op, pqvars>>
       ELSE /\ op' = "idle"
            /\ pq_products' = <<>>
            /\ new_products' = <<>>
            /\ known0' = EmptyMap
    /\ NoteHandled(spc # "returned")
    /\ UNCHANGED <<now, products, disk, enabled, products_type, removed_count, failures, hist>>

\* main.py:119-127: the list is exhausted; a non-empty new_products is handed
\* to notifier.send_notifications
PqFinish ==
    /\ op = "pq"
    /\ spc = "none"
    /\ IF new_products # <<>>
       THEN /\ op' = "notify"
            /\ UNCHANGED pqvars
       ELSE /\ op' = "idle"
            /\ pq_products' = <<>>
            /\ new_products' = <<>>
            /\ known0' = EmptyMap
    /\ UNCHANGED <<now, products, disk, spc, enabled, products_type, calls, removed_count, failures, hist, pre>>

\* What notifier.send_notifications does when called at main.py:125: it
\* returns True, returns False, or raises.
SendOutcomes == {"true", "false", "raise"}
Sent == {"sent_" \o outcome : outcome \in SendOutcomes}

\* main.py:125: the call of send_notifications ends.  Its value is not
\* assigned, and an exception goes to the handler of main.py:129-136.
SendNotifications(outcome) ==
    /\ op = "notify"
    /\ op' = "sent_" \o outcome
    /\ RecordHandOver
    /\ UNCHANGED <<now, products, disk, spc, enabled, products_type, calls, pqvars,
                   removed_count, failures, pre>>

\* Mutant: a notification that failed takes the registrations of the call back.
NotifyDoneRollback ==
    /\ op \in Sent
    /\ op' = "idle"
    /\ products' = IF op = "sent_true" THEN products ELSE known0
    /\ pq_products' = <<>>
    /\ new_products' = <<>>
    /\ known0' = EmptyMap
    /\ UNCHANGED <<now, disk, spc, enabled, products_type, calls, removed_count,
                   failures, hist, pre>>

\* main.py:125-136: process_query returns, after the call or after its handler
\* has logged the exception; the store is not touched in any case.
NotifyDone ==
    /\ op \in Sent
    /\ op' = "idle"
    /\ pq_products' = <<>>
    /\ new_products' = <<>>
    /\ known0' = EmptyMap
    /\ NoteHandled(op = "sent_raise")
    /\ UNCHANGED <<now, products, disk, spc, enabled, products_type, removed_count,
                   failures, hist, pre>>

\* The store driven by the monitor (main.py): queries and the sweep of run_once.
MonitorNext ==
    \/ \E readable \in BOOLEAN : Construct(readable)
    \/ ConstructDone
    \/ LoadDone
    \/ Crash
    \/ Tick
    \/ \E ok \in BOOLEAN : SaveRename(ok)
    \/ \E ok \in BOOLEAN : SaveOpen(ok)
    \/ \E ok \in BOOLEAN : SaveDump(ok)
    \/ \E ok \in BOOLEAN : SaveUnlink(ok)
    \/ \E ok \in BOOLEAN : SaveExcept(ok)
    \/ \E max_days \in MaxDaysArgs : CleanupOldProducts(max_days)
    \/ CleanupDone
    \/ ProcessQuery
    \/ \E product \in Candidates : PqExamine(product)
    \/ ScraperFails
    \/ PqAddDone
    \/ PqFinish
    \/ \E outcome \in SendOutcomes : SendNotifications(outcome)
    \/ NotifyDone

Next ==
    \/ \E readable \in BOOLEAN : Construct(readable)
    \/ ConstructDone
    \/ LoadDone
    \/ Crash
    \/ Tick
    \/ \E ok \in BOOLEAN : SaveRename(ok)
    \/ \E ok \in BOOLEAN : SaveOpen(ok)
    \/ \E ok \in BOOLEAN : SaveDump(ok)
    \/ \E ok \in BOOLEAN : SaveUnlink(ok)
    \/ \E ok \in BOOLEAN : SaveExcept(ok)
    \/ \E product \in Candidates : AddProduct(product)
    \/ AddProductDone
    \/ \E max_days \in MaxDaysArgs : CleanupOldProducts(max_days)
    \/ CleanupDone
    \/ ClearAllProducts
    \/ ClearDone
    \/ SaveToFile
    \/ SaveToFileDone
    \/ ProcessQuery
    \/ \E product \in Candidates : PqExamine(product)
    \/ ScraperFails
    \/ PqAddDone
    \/ PqFinish
    \/ \E outcome \in SendOutcomes : SendNotifications(outcome)
    \/ NotifyDone

Spec == Init /\ [][Next]_vars

\* The monitor with the notification history recorded.  The filter is on: with
\* the filter off every image passes, as the images "pass" do here.
InitHistory == InitStore /\ track = TRUE /\ enabled = TRUE /\ Quiet
SpecHistory == InitHistory /\ [][MonitorNext]_vars

\* ------------------------------------------------------------------ run_once
\* The queries load_search_queries returns
MaxQueries == 2

\* main.py:138-146: the queries are loaded; with none the run is skipped
\* ("Skipping run") before the monitoring cycle starts.
RunOnce(queries) ==
    /\ op = "idle"
    /\ cyc = NoCycle
    /\ cyc' = [pc |-> IF queries = 0 THEN "skipped" ELSE "loop",
               left |-> queries, cleanups |-> 0, failed |-> FALSE]
    /\ UNCHANGED <<now, products, disk, op, spc, enabled, products_type, flt, conc, others,
                   pqvars, removed_count, failures, hist, pre>>

\* Mutant: the sweep is counted, and run, with every query.
RunOnceQuerySweeping ==
    /\ cyc.pc = "loop"
    /\ cyc.left > 0
    /\ BeginQuery
    /\ cyc' = [cyc EXCEPT !.pc = "query", !.left = cyc.left - 1,
                          !.cleanups = cyc.cleanups + 1]
    /\ UNCHANGED <<flt, conc, others>>

\* main.py:148-149: process_query is called for the next query
RunOnceQuery ==
    /\ cyc.pc = "loop"
    /\ cyc.left > 0
    /\ BeginQuery
    /\ cyc' = [cyc EXCEPT !.pc = "query", !.left = cyc.left - 1]
    /\ UNCHANGED <<flt, conc, others>>

\* main.py:150: process_query has returned (it lets no exception out) and
\* search_delay has been slept
RunOnceSleep ==
    /\ cyc.pc = "query"
    /\ op = "idle"
    /\ cyc' = [cyc EXCEPT !.pc = "loop"]
    /\ UNCHANGED <<now, products, disk, op, spc, enabled, products_type, flt, conc, others,
                   pqvars, removed_count, failures, hist, pre>>

\* main.py:152: the loop is over, cleanup_old_products() is called
RunOnceCleanup ==
    /\ cyc.pc = "loop"
    /\ cyc.left = 0
    /\ Sweep(NoneArg)
    /\ cyc' = [cyc EXCEPT !.pc = "swept", !.cleanups = cyc.cleanups + 1]
    /\ UNCHANGED <<flt, conc, others>>

\* main.py:153-156: the sweep has returned ("Monitoring cycle completed") or
\* its save has raised into the handler of run_once
RunOnceDone ==
    /\ cyc.pc = "swept"
    /\ op = "idle"
    /\ cyc' = [cyc EXCEPT !.pc = "done"]
    /\ UNCHANGED <<now, products, disk, op, spc, enabled, products_type, flt, conc, others,
                   pqvars, removed_count, failures, hist, pre>>

\* run_once returns
RunOnceReturn ==
    /\ cyc.pc \in {"skipped", "done"}
    /\ cyc' = NoCycle
    /\ UNCHANGED <<now, products, disk, op, spc, enabled, products_type, flt, conc, others,
                   pqvars, removed_count, failures, hist, pre>>

InitCycle == InitStore /\ track = FALSE /\ Quiet

CycleNext ==
    \/ \E readable \in BOOLEAN : Construct(readable)
    \/ ConstructDone
    \/ Tick
    \/ \E ok \in BOOLEAN : SaveRename(ok)
    \/ \E ok \in BOOLEAN : SaveOpen(ok)
    \/ \E ok \in BOOLEAN : SaveDump(ok)
    \/ \E ok \in BOOLEAN : SaveUnlink(ok)
    \/ \E ok \in BOOLEAN : SaveExcept(ok)
    \/ \E queries \in 0..MaxQueries : RunOnce(queries)
    \/ RunOnceQuery
    \/ \E product \in Candidates : PqExamine(product)
    \/ ScraperFails
    \/ PqAddDone
    \/ PqFinish
    \/ \E outcome \in SendOutcomes : SendNotifications(outcome)
    \/ NotifyDone
    \/ RunOnceSleep
    \/ RunOnceCleanup
    \/ CleanupDone
    \/ RunOnceDone
    \/ RunOnceReturn

SpecCycle == InitCycle /\ [][CycleNext]_vars

\* run_once is sequential code: the statement it has reached is executed.
\* The steps of a running cycle, which leave the clock alone.
CycleStep ==
    \/ \E ok \in BOOLEAN : SaveRename(ok)
    \/ \E ok \in BOOLEAN : SaveOpen(ok)
    \/ \E ok \in BOOLEAN : SaveDump(ok)
    \/ \E ok \in BOOLEAN : SaveUnlink(ok)
    \/ \E ok \in BOOLEAN : SaveExcept(ok)
    \/ RunOnceQuery
    \/ \E product \in Candidates : PqExamine(product)
    \/ ScraperFails
    \/ PqAddDone
    \/ PqFinish
    \/ \E outcome \in SendOutcomes : SendNotifications(outcome)
    \/ NotifyDone
    \/ RunOnceSleep
    \/ RunOnceCleanup
    \/ CleanupDone
    \/ RunOnceDone

SpecCycleFair == SpecCycle /\ WF_vars(CycleStep)

\* ------------------------------------------- two executions of process_query
\* Two executions of the loop of process_query (main.py:96-117) run on one
\* store and interleave between the statements that read or write the dict.
\* With conc.atomic a lock is held from is_product_known to the return of
\* add_product.  The save inside add_product is taken as one step here.
Threads == {1, 2}

NewThread == [pc |-> "loop", examined |-> 0, product |-> <<>>, new_products |-> <<>>]

ConcUnchanged ==
    UNCHANGED <<now, backup_file, op, spc, enabled, products_type, flt, cyc, others, pqvars,
                removed_count, failures, hist, pre>>

\* Two executions start on the idle store.
ConcStart(atomic) ==
    /\ op = "idle"
    /\ conc = NoConc
    /\ op' = "conc"
    /\ conc' = [pc |-> "run", atomic |-> atomic, th |-> [i \in Threads |-> NewThread],
                registrations |-> [id \in Ids |-> 0]]
    /\ UNCHANGED <<now, products, disk, spc, enabled, products_type, flt, cyc, others, pqvars,
                   removed_count, failures, hist, pre>>

\* product_storage.py:59-69 run by thread i for its product: the entry is
\* assigned and the snapshot written
Inserted(i, product, pc) ==
    /\ products' = Put(products, product.id, NewEntry(product, now))
    /\ storage_file' = Snapshot(products')
    /\ conc' = [conc EXCEPT
                   !.th[i].pc = pc,
                   !.registrations[product.id] = conc.registrations[product.id] + 1]

\* Mutant: the lock is never taken.
ConcCheckUnlocked(i, product) ==
    /\ conc.pc = "run"
    /\ conc.th[i].pc = "loop"
    /\ conc.th[i].examined < MaxCands
    /\ conc' = [conc EXCEPT
                   !.th[i].examined = conc.th[i].examined + 1,
                   !.th[i].pc = IF IsNew(products, product, enabled) THEN "add" ELSE "loop",
                   !.th[i].product = IF IsNew(products, product, enabled) THEN product ELSE <<>>,
                   !.th[i].new_products =
                       IF IsNew(products, product, enabled)
                       THEN Append(conc.th[i].new_products, product)
                       ELSE conc.th[i].new_products]
    /\ UNCHANGED <<products, storage_file>>
    /\ ConcUnchanged

\* main.py:97-116, and with the lock main.py:117 too: thread i examines its
\* next product, and appends it to its new_products if it takes it as new
ConcCheck(i, product) ==
    /\ conc.pc = "run"
    /\ conc.th[i].pc = "loop"
    /\ conc.th[i].examined < MaxCands
    /\ LET new == IsNew(products, product, enabled)
           examined == [conc EXCEPT
                           !.th[i].examined = conc.th[i].examined + 1,
                           !.th[i].new_products =
                               IF new THEN Append(conc.th[i].new_products, product)
                               ELSE conc.th[i].new_products]
       IN  IF new /\ conc.atomic
           THEN /\ products' = Put(products, product.id, NewEntry(product, now))
                /\ storage_file' = Snapshot(products')
                /\ conc' = [examined EXCEPT
                               !.registrations[product.id] =
                                   conc.registrations[product.id] + 1]
           ELSE /\ conc' = [examined EXCEPT
                               !.th[i].pc = IF new THEN "add" ELSE "loop",
                               !.th[i].product = IF new THEN product ELSE <<>>]
                /\ UNCHANGED <<products, storage_file>>
    /\ ConcUnchanged

\* main.py:117 and product_storage.py:54-57: thread i enters add_product,
\* which returns at once when the id is in the dict
ConcAddCheck(i) ==
    /\ conc.pc = "run"
    /\ conc.th[i].pc = "add"
    /\ conc' = [conc EXCEPT
                   !.th[i].pc = IF is_product_known(products, conc.th[i].product.id)
                                THEN "loop" ELSE "insert"]
    /\ UNCHANGED <<products, storage_file>>
    /\ ConcUnchanged

\* product_storage.py:59-70: thread i assigns the entry and saves
ConcInsert(i) ==
    /\ conc.pc = "run"
    /\ conc.th[i].pc = "insert"
    /\ Inserted(i, conc.th[i].product, "loop")
    /\ ConcUnchanged

\* main.py:119-127: the products of thread i are exhausted and its
\* new_products goes to the notifier
ConcFinish(i) ==
    /\ conc.pc = "run"
    /\ conc.th[i].pc = "loop"
    /\ conc' = [conc EXCEPT !.th[i].pc = "done"]
    /\ UNCHANGED <<products, storage_file>>
    /\ ConcUnchanged

\* Both executions have returned.
ConcEnd ==
    /\ conc.pc = "run"
    /\ \A i \in Threads : conc.th[i].pc = "done"
    /\ conc' = NoConc
    /\ op' = "idle"
    /\ UNCHANGED <<now, products, disk, spc, enabled, products_type, flt, cyc, others, pqvars,
                   removed_count, failures, hist, pre>>

InitConcurrent == InitStore /\ track = FALSE /\ Quiet

ConcurrentNext ==
    \/ \E readable \in BOOLEAN : Construct(readable)
    \/ ConstructDone
    \/ \E ok \in BOOLEAN : SaveRename(ok)
    \/ \E ok \in BOOLEAN : SaveOpen(ok)
    \/ \E ok \in BOOLEAN : SaveDump(ok)
    \/ \E ok \in BOOLEAN : SaveUnlink(ok)
    \/ \E ok \in BOOLEAN : SaveExcept(ok)
    \/ \E atomic \in BOOLEAN : ConcStart(atomic)
    \/ \E i \in Threads, product \in Candidates : ConcCheck(i, product)
    \/ \E i \in Threads : ConcAddCheck(i)
    \/ \E i \in Threads : ConcInsert(i)
    \/ \E i \in Threads : ConcFinish(i)
    \/ ConcEnd

SpecConcurrent == InitConcurrent /\ [][ConcurrentNext]_vars

\* ------------------------------------------------------------ image filter
\* image_filter.py:141, 152, 108: the smallest accepted side in pixels, the
\* sharpness threshold, and the border deviation below which a border is solid.
min_resolution == 100
sharpness_threshold == 1000
solid_variance == 20

\* config["filtering"]["max_solid_color_ratio"], in hundredths
MaxSolidColorRatios == {5, 10, 30}

\* What is behind product["image_url"]: the record has no such key; the value
\* is None or ''; the download fails; the bytes do not decode; or an RGB array.
UrlKinds == {"missing", "none", "empty", "unreachable", "undecodable", "ok"}

\* What the filter measures on a decoded image: its sides, sharpness (the
\* variance of the gradient map), avg_variance (the mean deviation of the
\* border pixels) and background_pixels (the pixels within the colour
\* threshold of the border mean).  quality_error / ratio_error: the
\* computation inside _is_low_quality / _calculate_background_ratio raises;
\* outer_error: something raises in analyze_image or filter_background
\* itself, after the download.
Sides == {min_resolution - 1, min_resolution}
BackgroundPixels(total) == {0, (total \div 10) - 1, (total + 9) \div 10, total}
DecodedImages ==
    {img \in [url : {"ok"}, height : Sides, width : Sides,
              sharpness : {sharpness_threshold - 1, sharpness_threshold},
              avg_variance : {solid_variance - 1, solid_variance},
              background_pixels : BackgroundPixels(min_resolution * min_resolution),
              quality_error : BOOLEAN, ratio_error : BOOLEAN, outer_error : BOOLEAN] :
        img.background_pixels <= img.height * img.width}
NoPixels(kind) ==
    [url |-> kind, height |-> 0, width |-> 0, sharpness |-> 0, avg_variance |-> 0,
     background_pixels |-> 0, quality_error |-> FALSE, ratio_error |-> FALSE,
     outer_error |-> FALSE]
Images == DecodedImages \cup {NoPixels(kind) : kind \in UrlKinds \ {"ok"}}

\* image_filter.py:25-56: whether _download_image returns an array (not None)
download_image(image) == image.url = "ok"

\* A ratio is a pair <<numerator, denominator>>.
Less(r, q) == r[1] * q[2] < q[1] * r[2]

\* Mutant: the ratio is returned as measured, without the minimum.
calculate_background_ratio_unclamped(image) ==
    IF image.ratio_error THEN <<0, 1>>
    ELSE <<image.background_pixels, image.height * image.width>>

\* image_filter.py:58-125
calculate_background_ratio(image) ==
    IF image.ratio_error THEN <<0, 1>>
    ELSE LET total_pixels == image.height * image.width
             is_solid_background == image.avg_variance < solid_variance
             background_ratio == <<image.background_pixels, total_pixels>>
         IN  IF is_solid_background /\ Less(background_ratio, <<1, 10>>)
             THEN <<1, 10>>
             ELSE background_ratio

\* Mutant: an image with the threshold sharpness counts as low quality.
is_low_quality_inclusive(image) ==
    IF image.height < min_resolution \/ image.width < min_resolution THEN TRUE
    ELSE IF image.quality_error THEN FALSE
    ELSE image.sharpness <= sharpness_threshold

\* image_filter.py:127-158; the computation that can raise comes after the
\* resolution test.
is_low_quality(image) ==
    IF image.height < min_resolution \/ image.width < min_resolution THEN TRUE
    ELSE IF image.quality_error THEN FALSE
    ELSE image.sharpness < sharpness_threshold

\* image_filter.py:160-188
has_solid_color_background(image, filtering, max_ratio) ==
    IF ~filtering THEN FALSE
    ELSE Less(<<max_ratio, 100>>, calculate_background_ratio(image))

\* Mutant: an image that cannot be downloaded is rejected.
filter_background_closed(image, filtering, max_ratio) ==
    IF ~filtering THEN TRUE
    ELSE IF ~download_image(image) THEN FALSE
    ELSE IF image.outer_error THEN TRUE
    ELSE IF is_low_quality(image) THEN FALSE
    ELSE IF has_solid_color_background(image, filtering, max_ratio) THEN FALSE
    ELSE TRUE

\* Mutant: the verdict of the checks is returned with the filter off too.
filter_background_always(image, filtering, max_ratio) ==
    IF ~download_image(image) THEN TRUE
    ELSE IF image.outer_error THEN TRUE
    ELSE IF is_low_quality(image) THEN FALSE
    ELSE IF has_solid_color_background(image, filtering, max_ratio) THEN FALSE
    ELSE TRUE

\* image_filter.py:190-227
filter_background(image, filtering, max_ratio) ==
    IF ~filtering THEN TRUE
    ELSE IF ~download_image(image) THEN TRUE
    ELSE IF image.outer_error THEN TRUE
    ELSE IF is_low_quality(image) THEN FALSE
    ELSE IF has_solid_color_background(image, filtering, max_ratio) THEN FALSE
    ELSE TRUE

\* image_filter.py:229-260; None when the download fails or something raises
NoAnalysis == [returned |-> "None"]
analyze_image(image, filtering, max_ratio) ==
    IF ~download_image(image) \/ image.outer_error THEN NoAnalysis
    ELSE LET low_quality == is_low_quality(image)
             solid_background == has_solid_color_background(image, filtering, max_ratio)
         IN  [returned |-> "dict",
              background_ratio |-> calculate_background_ratio(image),
              is_low_quality |-> low_quality,
              has_solid_background |-> solid_background,
              passes_filter |-> ~low_quality /\ ~solid_background]

\* main.py:100-114: what the filter call does as process_query sees it.
\* product["image_url"] raises KeyError when the record has no such key.
FilterCall(image, filtering, max_ratio) ==
    IF image.url = "missing" THEN "raise"
    ELSE IF filter_background(image, filtering, max_ratio) THEN "pass"
    ELSE "reject"

StoreUntouched ==
    UNCHANGED <<now, products, disk, op, spc, enabled, products_type, cyc, conc, others, pqvars,
                removed_count, failures, hist, pre>>

\* filter_background(image_url) is called
FilterBackground(image) ==
    /\ flt.pc = "idle"
    /\ image.url # "missing"
    /\ flt' = [pc |-> "filtered", max_solid_color_ratio |-> flt.max_solid_color_ratio,
               image |-> image,
               verdict |-> filter_background(image, enabled, flt.max_solid_color_ratio)]
    /\ StoreUntouched

\* analyze_image(image_url) is called on the image filter_background has judged
AnalyzeImage ==
    /\ flt.pc = "filtered"
    /\ flt' = [flt EXCEPT !.pc = "analyzed"] @@
               [analysis |-> analyze_image(flt.image, enabled, flt.max_solid_color_ratio)]
    /\ StoreUntouched

\* main.py:98-116 for a product whose id is not known: the filter call and
\* what process_query makes of it
PqFilter(image) ==
    /\ flt.pc = "idle"
    /\ enabled
    /\ LET outcome == FilterCall(image, enabled, flt.max_solid_color_ratio)
       IN  flt' = [pc |-> "pq", max_solid_color_ratio |-> flt.max_solid_color_ratio,
                   image |-> image, outcome |-> outcome,
                   is_new |-> IsNew(EmptyMap, [id |-> 1, image |-> outcome], enabled)]
    /\ StoreUntouched

FilterReturn ==
    /\ flt.pc \in {"filtered", "analyzed", "pq"}
    /\ flt' = [pc |-> "idle", max_solid_color_ratio |-> flt.max_solid_color_ratio]
    /\ StoreUntouched

InitFilter ==
    /\ InitStore
    /\ track = FALSE
    /\ products_type = "dict"
    /\ cyc = NoCycle
    /\ ntf = NoNotify
    /\ swp = NoSweep
    /\ shut = NoMain
    /\ smp = NoSample
    /\ conc = NoConc
    /\ \E r \in MaxSolidColorRatios : flt = [pc |-> "idle", max_solid_color_ratio |-> r]

FilterNext ==
    \/ \E image \in Images : FilterBackground(image)
    \/ AnalyzeImage
    \/ \E image \in Images : PqFilter(image)
    \/ FilterReturn

SpecFilter == InitFilter /\ [][FilterNext]_vars

\* Construction alone, on whatever file is found at storage_path: the
\* snapshots save_to_file writes, truncated files and foreign files.
MapsOnDisk ==
    {[i \in S |-> NewEntry([id |-> i, image |-> "pass"], 0)] : S \in SUBSET Ids}
FilesOnDisk == {Absent, Partial} \cup ForeignFiles \cup {Snapshot(m) : m \in MapsOnDisk}

InitLoad ==
    /\ InitMemory
    /\ storage_file \in FilesOnDisk
    /\ backup_file \in {Absent, Partial, Snapshot(EmptyMap)}
    /\ track = FALSE
    /\ Quiet

LoadNext ==
    \/ \E readable \in BOOLEAN : Construct(readable)
    \/ ConstructDone
    \/ LoadDone
    \/ Crash
    \/ \E ok \in BOOLEAN : SaveRename(ok)
    \/ \E ok \in BOOLEAN : SaveOpen(ok)
    \/ \E ok \in BOOLEAN : SaveDump(ok)
    \/ \E ok \in BOOLEAN : SaveUnlink(ok)
    \/ \E ok \in BOOLEAN : SaveExcept(ok)

SpecLoad == InitLoad /\ [][LoadNext]_vars

\* ------------------------------------------------------- TelegramNotifier
\* The lists handed to send_notifications: up to MaxListLen products.
MaxListLen == 7
ProductLists == UNION {[1..n -> Ids] : n \in 0..MaxListLen}

\* telegram_notifier.py:267
batch_size == 3

Min(a, b) == IF a < b THEN a ELSE b

\* products[i:i+batch_size], i counted from 0 as range() does
Slice(list, i) == SubSeq(list, i + 1, Min(i + batch_size, Len(list)))

\* telegram_notifier.py:150-176: the products a batch message shows with
\* title and link. One product goes out as a single notification; of more,
\* products[:max_display] are listed, max_display = min(3, len(products)),
\* and the rest only counted ("... and N more products").
Displayed(batch) ==
    IF Len(batch) = 1 THEN batch
    ELSE SubSeq(batch, 1, Min(3, Len(batch)))

\* send_notification_batch(batch, ...) has run and send_telegram_message
\* answered ok (status 200) or not
Attempt(batch, ok) ==
    [ntf EXCEPT !.attempts = Append(ntf.attempts, [batch |-> batch, ok |-> ok]),
                !.messages = IF ok THEN Append(ntf.messages, Displayed(batch))
                             ELSE ntf.messages]

\* telegram_notifier.py:256-267: send_notifications(products, query) is called
NotifierCall(list) ==
    /\ ntf = NoNotify
    /\ ntf' = [pc |-> IF Len(list) = 0 THEN "returned"
                      ELSE IF Len(list) <= 5 THEN "single"
                      ELSE "loop",
               products |-> list, i |-> 0, attempts |-> <<>>,
               messages |-> <<>>, result |-> Len(list) = 0]
    /\ UNCHANGED <<now, products, disk, op, spc, enabled, products_type, flt, cyc, conc,
                   swp, shut, smp, pqvars, removed_count, failures, hist, pre>>

\* telegram_notifier.py:263-264
SendSingle(ok) ==
    /\ ntf.pc = "single"
    /\ ntf' = [Attempt(ntf.products, ok) EXCEPT !.pc = "returned", !.result = ok]
    /\ UNCHANGED <<now, products, disk, op, spc, enabled, products_type, flt, cyc, conc,
                   swp, shut, smp, pqvars, removed_count, failures, hist, pre>>

\* Mutant: the loop goes on after a batch that failed.
SendBatchContinuing(ok) ==
    /\ ntf.pc = "loop"
    /\ ntf.i < Len(ntf.products)
    /\ ntf' = [Attempt(Slice(ntf.products, ntf.i), ok) EXCEPT !.i = ntf.i + batch_size]
    /\ UNCHANGED <<now, products, disk, op, spc, enabled, products_type, flt, cyc, conc,
                   swp, shut, smp, pqvars, removed_count, failures, hist, pre>>

\* telegram_notifier.py:268-272: one iteration of the loop over the batches
SendBatch(ok) ==
    /\ ntf.pc = "loop"
    /\ ntf.i < Len(ntf.products)
    /\ ntf' = IF ok
              THEN [Attempt(Slice(ntf.products, ntf.i), ok) EXCEPT
                        !.i = ntf.i + batch_size]
              ELSE [Attempt(Slice(ntf.products, ntf.i), ok) EXCEPT
                        !.pc = "returned", !.result = FALSE]
    /\ UNCHANGED <<now, products, disk, op, spc, enabled, products_type, flt, cyc, conc,
                   swp, shut, smp, pqvars, removed_count, failures, hist, pre>>

\* telegram_notifier.py:273: the range is exhausted
SendLoopEnd ==
    /\ ntf.pc = "loop"
    /\ ntf.i >= Len(ntf.products)
    /\ ntf' = [ntf EXCEPT !.pc = "returned", !.result = TRUE]
    /\ UNCHANGED <<now, products, disk, op, spc, enabled, products_type, flt, cyc, conc,
                   swp, shut, smp, pqvars, removed_count, failures, hist, pre>>

\* the caller has the result
NotifierReturn ==
    /\ ntf.pc = "returned"
    /\ ntf' = NoNotify
    /\ UNCHANGED <<now, products, disk, op, spc, enabled, products_type, flt, cyc, conc,
                   swp, shut, smp, pqvars, removed_count, failures, hist, pre>>

InitNotify == InitStore /\ track = FALSE /\ Quiet

NotifyNext ==
    \/ \E list \in ProductLists : NotifierCall(list)
    \/ \E ok \in BOOLEAN : SendSingle(ok)
    \/ \E ok \in BOOLEAN : SendBatch(ok)
    \/ SendLoopEnd
    \/ NotifierReturn

SpecNotify == InitNotify /\ [][NotifyNext]_vars

\* ------------------------------------------ the sweep over a loaded snapshot
\* _load_existing_products takes the entries of the snapshot as they are
\* (product_storage.py:30), so a stored entry may hold under "added_at" an ISO
\* timestamp, a string that is no timestamp, a value that is no string (null,
\* a number), or nothing at all.
StoredAddedAt ==
    {[kind |-> "iso", at |-> t] : t \in Times}
        \cup {[kind |-> k, at |-> 0] : k \in {"garbled", "not_text", "missing"}}

LoadedEntries == UNION {[S -> StoredAddedAt] : S \in SUBSET Ids}

\* product_storage.py:133: datetime.fromisoformat(product['added_at'])
\* returns the timestamp of an ISO string and raises ValueError on any other
\* string, TypeError on a value that is no string, and the subscript raises
\* KeyError when the entry has no such key.
fromisoformat(added_at) ==
    CASE added_at.kind = "iso" -> "ok"
      [] added_at.kind = "garbled" -> "ValueError"
      [] added_at.kind = "not_text" -> "TypeError"
      [] added_at.kind = "missing" -> "KeyError"

\* product_storage.py:123-129: cleanup_old_products() is called on a store
\* holding the entries, at time t
SweepCall(entries, t) ==
    /\ swp = NoSweep
    /\ swp' = [pc |-> "scan", before |-> entries, products |-> entries,
               todo |-> DOMAIN entries, cutoff |-> t - max_storage_days,
               products_to_remove |-> {}, removed_count |-> 0]
    /\ UNCHANGED <<now, products, disk, op, spc, enabled, products_type, flt, cyc, conc,
                   ntf, shut, smp, pqvars, removed_count, failures, hist, pre>>

\* product_storage.py:131-138: one iteration over self.products.items(); only
\* ValueError is caught, any other exception leaves cleanup_old_products.
SweepExamine(product_id) ==
    /\ swp.pc = "scan"
    /\ product_id \in swp.todo
    /\ LET added_at == swp.products[product_id]
           parsed == fromisoformat(added_at)
       IN  swp' = IF parsed \in {"TypeError", "KeyError"}
                  THEN [swp EXCEPT !.pc = "raised"]
                  ELSE [swp EXCEPT
                           !.todo = swp.todo \ {product_id},
                           !.products_to_remove =
                               IF parsed = "ValueError" \/ added_at.at < swp.cutoff
                               THEN swp.products_to_remove \cup {product_id}
                               ELSE swp.products_to_remove]
    /\ UNCHANGED <<now, products, disk, op, spc, enabled, products_type, flt, cyc, conc,
                   ntf, shut, smp, pqvars, removed_count, failures, hist, pre>>

\* product_storage.py:140-149: the collected ids are deleted and counted
SweepRemove ==
    /\ swp.pc = "scan"
    /\ swp.todo = {}
    /\ swp' = [swp EXCEPT
                  !.pc = "returned",
                  !.products = Restrict(swp.products,
                                        DOMAIN swp.products \ swp.products_to_remove),
                  !.removed_count = Cardinality(swp.products_to_remove)]
    /\ UNCHANGED <<now, products, disk, op, spc, enabled, products_type, flt, cyc, conc,
                   ntf, shut, smp, pqvars, removed_count, failures, hist, pre>>

\* the caller has the count or the exception
SweepReturn ==
    /\ swp.pc \in {"returned", "raised"}
    /\ swp' = NoSweep
    /\ UNCHANGED <<now, products, disk, op, spc, enabled, products_type, flt, cyc, conc,
                   ntf, shut, smp, pqvars, removed_count, failures, hist, pre>>

InitSweep == InitStore /\ track = FALSE /\ Quiet

SweepNext ==
    \/ \E entries \in LoadedEntries, t \in Times : SweepCall(entries, t)
    \/ \E product_id \in Ids : SweepExamine(product_id)
    \/ SweepRemove
    \/ SweepReturn

SpecSweep == InitSweep /\ [][SweepNext]_vars

\* ------------------------------------------------------ main() and close()
\* The methods of ProductStorage (product_storage.py:16-201).
StorageMethods ==
    {"add_product", "is_product_known", "get_product_info", "get_all_products",
     "get_recent_products", "get_products_count", "cleanup_old_products",
     "save_to_file", "clear_all_products", "get_storage_stats"}

\* The keyword parameters of ProductStorage.__init__ (product_storage.py:16).
StorageInitParams == {"storage_path"}

\* main.py:204-205: main() has parsed its arguments and enters the try block
MainCall ==
    /\ shut = NoMain
    /\ op = "down"
    /\ shut' = [pc |-> "main", monitor |-> FALSE, driver |-> FALSE]
    /\ UNCHANGED <<now, products, disk, op, spc, enabled, products_type, flt, cyc, conc,
                   ntf, swp, smp, pqvars, removed_count, failures, hist, pre>>

\* main.py:206, 29-38: MercariMonitor(args.config).  load_config re-raises
\* when the file cannot be read (49-56); otherwise ProductStorage is called
\* with the keyword max_storage_days, which its __init__ does not take, and
\* the call raises TypeError before a store exists.  Either way the handler
\* of main.py:211-213 runs with monitor still None.
MainConstruct(config_ok) ==
    /\ shut.pc = "main"
    /\ shut' = [shut EXCEPT
                   !.pc = IF config_ok /\ "max_storage_days" \in StorageInitParams
                          THEN "running" ELSE "except",
                   !.monitor = config_ok /\ "max_storage_days" \in StorageInitParams]
    /\ UNCHANGED <<now, products, disk, op, spc, enabled, products_type, flt, cyc, conc,
                   ntf, swp, smp, pqvars, removed_count, failures, hist, pre>>

\* main.py:214-216: finally; close() is called only on a monitor
MainFinally ==
    /\ shut.pc = "except"
    /\ ~shut.monitor
    /\ shut' = [shut EXCEPT !.pc = "exited"]
    /\ UNCHANGED <<now, products, disk, op, spc, enabled, products_type, flt, cyc, conc,
                   ntf, swp, smp, pqvars, removed_count, failures, hist, pre>>

\* main.py:175-178: close() is called on a monitor; its scraper holds a
\* WebDriver when a query has been searched (mercari_scraper.py:160-161).
CloseCall(driver) ==
    /\ shut = NoMain
    /\ op = "idle"
    /\ shut' = [pc |-> "close", monitor |-> TRUE, driver |-> driver]
    /\ UNCHANGED <<now, products, disk, op, spc, enabled, products_type, flt, cyc, conc,
                   ntf, swp, smp, pqvars, removed_count, failures, hist, pre>>

\* main.py:179-183: self.storage.save_products() is looked up.  A method of
\* that name would save, and scraper.close() would quit the driver
\* (mercari_scraper.py:266-274); without it the lookup raises AttributeError
\* and the handler logs it, so that line 180 is not reached.
CloseBody ==
    /\ shut.pc = "close"
    /\ IF "save_products" \in StorageMethods
       THEN /\ shut' = [shut EXCEPT !.pc = "closed", !.driver = FALSE]
            /\ storage_file' = Snapshot(products)
       ELSE /\ shut' = [shut EXCEPT !.pc = "closed"]
            /\ UNCHANGED storage_file
    /\ UNCHANGED <<now, products, backup_file, op, spc, enabled, products_type, flt, cyc,
                   conc, ntf, swp, smp, pqvars, removed_count, failures, hist, pre>>

\* close() or main() has returned
MainReturn ==
    /\ shut.pc \in {"closed", "exited"}
    /\ shut' = NoMain
    /\ UNCHANGED <<now, products, disk, op, spc, enabled, products_type, flt, cyc, conc,
                   ntf, swp, smp, pqvars, removed_count, failures, hist, pre>>

\* main.py:35-38 as it would run with a matching parameter: the store of a
\* monitor is constructed; main.py:117: a product is registered.
MonitorStorage(readable) == shut = NoMain /\ Construct(readable)
MonitorAddProduct(product) == shut = NoMain /\ AddProduct(product)

InitMain == InitStore /\ track = FALSE /\ Quiet

\* A monitor's store is constructed and filled, and the monitor is closed.
MainNext ==
    \/ MainCall
    \/ \E config_ok \in BOOLEAN : MainConstruct(config_ok)
    \/ MainFinally
    \/ \E readable \in BOOLEAN : MonitorStorage(readable)
    \/ ConstructDone
    \/ Tick
    \/ \E ok \in BOOLEAN : SaveRename(ok)
    \/ \E ok \in BOOLEAN : SaveOpen(ok)
    \/ \E ok \in BOOLEAN : SaveDump(ok)
    \/ \E ok \in BOOLEAN : SaveUnlink(ok)
    \/ \E ok \in BOOLEAN : SaveExcept(ok)
    \/ \E product \in Candidates : MonitorAddProduct(product)
    \/ AddProductDone
    \/ \E driver \in BOOLEAN : CloseCall(driver)
    \/ CloseBody
    \/ MainReturn

SpecMain == InitMain /\ [][MainNext]_vars

\* --------------------------------------------------------- border sampling
\* The image sizes sampled: every side from 1 up to MaxSide, and sides of 20
\* and 21 pixels, where the border is 2 pixels wide.
MaxSide == 3
SampleSides == (1 .. MaxSide) \cup {20, 21}

Max(a, b) == IF a > b THEN a ELSE b

\* image_filter.py:79
BorderWidth(height, width) == Max(1, Min(Min(width \div 10, height \div 10), 20))

\* image_filter.py:76-82: _calculate_background_ratio starts on an image of
\* the given shape; border_pixels is the list of the coordinates [h, w] read
SampleCall(height, width) ==
    /\ smp = NoSample
    /\ smp' = [pc |-> "top_bottom", height |-> height, width |-> width,
               border_width |-> BorderWidth(height, width), w |-> 0, h |-> 0,
               border_pixels |-> <<>>]
    /\ UNCHANGED <<now, products, disk, op, spc, enabled, products_type, flt, cyc, conc,
                   ntf, swp, shut, pqvars, removed_count, failures, hist, pre>>

\* image_filter.py:85-88: one iteration of the inner loop over the top and
\* bottom bands, for w in range(width), for h in range(border_width)
SampleTopBottom ==
    /\ smp.pc = "top_bottom"
    /\ smp.w < smp.width
    /\ LET last == smp.h + 1 = smp.border_width
       IN  smp' = [smp EXCEPT
                      !.border_pixels = smp.border_pixels
                                            \o << <<smp.h, smp.w>>,
                                                  <<smp.height - 1 - smp.h, smp.w>> >>,
                      !.h = IF last THEN 0 ELSE smp.h + 1,
                      !.w = IF last THEN smp.w + 1 ELSE smp.w]
    /\ UNCHANGED <<now, products, disk, op, spc, enabled, products_type, flt, cyc, conc,
                   ntf, swp, shut, pqvars, removed_count, failures, hist, pre>>

\* image_filter.py:91: the first loop is over, the second starts at
\* h = border_width
SampleSides2 ==
    /\ smp.pc = "top_bottom"
    /\ smp.w = smp.width
    /\ smp' = [smp EXCEPT !.pc = "left_right", !.h = smp.border_width, !.w = 0]
    /\ UNCHANGED <<now, products, disk, op, spc, enabled, products_type, flt, cyc, conc,
                   ntf, swp, shut, pqvars, removed_count, failures, hist, pre>>

\* image_filter.py:91-94: one iteration of the inner loop over the left and
\* right bands, for h in range(border_width, height - border_width), for w in
\* range(border_width)
SampleLeftRight ==
    /\ smp.pc = "left_right"
    /\ smp.h < smp.height - smp.border_width
    /\ LET last == smp.w + 1 = smp.border_width
       IN  smp' = [smp EXCEPT
                      !.border_pixels = smp.border_pixels
                                            \o << <<smp.h, smp.w>>,
                                                  <<smp.h, smp.width - 1 - smp.w>> >>,
                      !.w = IF last THEN 0 ELSE smp.w + 1,
                      !.h = IF last THEN smp.h + 1 ELSE smp.h]
    /\ UNCHANGED <<now, products, disk, op, spc, enabled, products_type, flt, cyc, conc,
                   ntf, swp, shut, pqvars, removed_count, failures, hist, pre>>

\* image_filter.py:96: the list is complete
SampleDone ==
    /\ smp.pc = "left_right"
    /\ smp.h >= smp.height - smp.border_width
    /\ smp' = [smp EXCEPT !.pc = "done"]
    /\ UNCHANGED <<now, products, disk, op, spc, enabled, products_type, flt, cyc, conc,
                   ntf, swp, shut, pqvars, removed_count, failures, hist, pre>>

\* the statistics are taken and the call returns
SampleReturn ==
    /\ smp.pc = "done"
    /\ smp' = NoSample
    /\ UNCHANGED <<now, products, disk, op, spc, enabled, products_type, flt, cyc, conc,
                   ntf, swp, shut, pqvars, removed_count, failures, hist, pre>>

InitSample == InitStore /\ track = FALSE /\ Quiet

SampleNext ==
    \/ \E height \in SampleSides, width \in SampleSides : SampleCall(height, width)
    \/ SampleTopBottom
    \/ SampleSides2
    \/ SampleLeftRight
    \/ SampleDone
    \/ SampleReturn

SpecSample == InitSample /\ [][SampleNext]_vars

\* ------------------------------------------------------------------ claims
NoRepeat(s) == \A i, j \in DOMAIN s : i # j => s[i].id # s[j].id

\* C1 as stated: over queries, sweeps, saves and restarts, no product id is
\* in a list handed to the notifier more than once: a list being handed holds
\* no id twice and no id an earlier list held.
C1_HandedAtMostOnce ==
    op = "notify" => /\ IdsOf(new_products) \cap handed = {}
                     /\ NoRepeat(new_products)

\* C1 amended: a product id is handed to the notifier at most once for as long
\* as its entry stays in the store: a list being handed holds no id twice and
\* no id that an earlier list held and that has been registered ever since.
C1_HandedOncePerRegistration ==
    op = "notify" => /\ IdsOf(new_products) \cap live = {}
                     /\ NoRepeat(new_products)

\* C1 witness: a list is being handed that holds an id an earlier list held,
\* its entry having left the store in between.
C1_HandedAgainAfterRemoval ==
    /\ op = "notify"
    /\ IdsOf(new_products) \cap handed # {}

\* The list the pipeline is to hand over for the candidates cands when the ids
\* in known are registered: the candidates, in order, whose id is not known
\* when their turn comes and whose image the filter (if on) does not reject.
RECURSIVE NovelAccepted(_, _, _)
NovelAccepted(cands, known, filtering) ==
    IF cands = <<>> THEN <<>>
    ELSE LET c == Head(cands)
             take == c.id \notin known /\ ~(filtering /\ c.image = "reject")
         IN  IF take
             THEN <<c>> \o NovelAccepted(Tail(cands), known \cup {c.id}, filtering)
             ELSE NovelAccepted(Tail(cands), known, filtering)

\* C2: the list process_query builds and hands to the notifier is the
\* subsequence, in input order, of the candidates that were not known when
\* examined and whose image was accepted; the entries known before the call
\* are still there, unchanged.
C2_HandsNovelAcceptedInOrder ==
    op \in {"pq", "notify"} =>
        /\ new_products = NovelAccepted(pq_products, DOMAIN known0, enabled)
        /\ \A id \in DOMAIN known0 : id \in DOMAIN products /\ products[id] = known0[id]

\* C2 witness: a list is handed although one candidate was already known and
\* another was rejected or known too.
C2_KnownCandidateSkipped ==
    /\ op = "notify"
    /\ Len(pq_products) = MaxCands
    /\ Len(new_products) < Len(pq_products)
    /\ \E k \in DOMAIN pq_products : pq_products[k].id \in DOMAIN known0

\* C3: every product in the list handed to the notifier was registered during
\* this call (it was not known before, it is known now, added now), and no
\* candidate known before the call is in the list.
C3_ReturnedProductsAreRegistered ==
    op = "notify" =>
        \A k \in DOMAIN new_products :
            LET id == new_products[k].id
            IN  /\ id \notin DOMAIN known0
                /\ id \in DOMAIN products
                /\ products[id].added_at = now

\* C3 witness: the scraper's list held the same id twice; the first was
\* registered and handed on, the second was not returned again.
C3_SecondOccurrenceNotReturned ==
    /\ op = "notify"
    /\ Len(pq_products) = 2
    /\ pq_products[1].id = pq_products[2].id
    /\ Len(new_products) = 1

\* C4: an entry, once stored under an id, is never changed while the id stays
\* in the dict (a later add_product with that id keeps added_at), each entry
\* is stored under its own id, and an entry a running store inserts carries
\* the time of that call.
C4_AddedAtSetOnce ==
    [][/\ \A id \in DOMAIN products \cap DOMAIN products' : products'[id] = products[id]
       /\ \A id \in DOMAIN products' : products'[id].id = id
       /\ op # "down" => \A id \in DOMAIN products' \ DOMAIN products :
                            products'[id].added_at = now]_vars

\* C4 witness: the store is idle and holds an entry added on an earlier day, so
\* the add_product calls with its id leave this state as it is.
C4_OlderEntryKept ==
    /\ op = "idle"
    /\ \E id \in DOMAIN products : products[id].added_at < now

\* C5 as stated: while add_product, cleanup_old_products or process_query
\* runs, the two files on disk do not change.
C5_NoWriteOutsideExplicitSave ==
    [][(op \in {"add", "cleanup", "pq"}) => (disk' = disk)]_vars

\* C5 amended: the files change only inside save_to_file; add_product,
\* cleanup_old_products and process_query enter save_to_file in the very step
\* in which they change the dict, and add_product and cleanup_old_products
\* enter it only when they changed the dict.
C5_EveryMutationIsSaved ==
    [][/\ disk' # disk => spc # "none"
       /\ (op \in {"idle", "pq"} /\ op' # "down" /\ products' # products)
              => spc' = "rename"
       /\ (op = "idle" /\ op' \in {"add", "cleanup"}) => products' # products]_vars

\* C5 witness: process_query, inside add_product, has written the snapshot.
C5_QueryWroteSnapshot ==
    /\ op = "pq"
    /\ spc = "unlink"
    /\ products # EmptyMap
    /\ storage_file = Snapshot(products)

\* C6: cleanup_old_products(max_days) removes exactly the entries older than
\* max_days, keeps the others (the one aged exactly max_days too) unchanged,
\* and its removed_count is the number of entries removed.
C6_CleanupRemovesExactlyExpired ==
    [][\A d \in MaxDaysArgs :
          CleanupOldProducts(d) =>
              LET maxAge == IF d = NoneArg THEN max_storage_days ELSE d
              IN  /\ \A id \in DOMAIN products :
                        IF now - products[id].added_at > maxAge
                        THEN id \notin DOMAIN products'
                        ELSE id \in DOMAIN products' /\ products'[id] = products[id]
                  /\ DOMAIN products' \subseteq DOMAIN products
                  /\ removed_count' = Cardinality(DOMAIN products \ DOMAIN products')]_vars

\* C6 witness: a sweep removed an entry and kept one aged exactly
\* max_storage_days.
C6_BoundaryEntryKept ==
    /\ op = "cleanup"
    /\ removed_count >= 1
    /\ \E id \in DOMAIN products : now - products[id].added_at = max_storage_days

\* C7 as stated: when save_to_file raises, the snapshot file is what it was
\* when the call began.
C7_FailedSaveLeavesSnapshotUnchanged ==
    spc = "raised" => storage_file = pre.file

\* C8 as stated: after a crash that left the last snapshot under the backup
\* path and no file under storage_path, the restarted store still has that
\* snapshot on disk, under one of the two paths.
C8_BackupRecoveredAfterCrash ==
    (op = "init" /\ spc = "returned" /\ IsComplete(pre.backup)) =>
        (storage_file = pre.backup \/ backup_file = pre.backup)

\* C9: when save_to_file has returned normally, the snapshot file holds the
\* entries of the dict and there is no backup file.
C9_SavedSnapshotAndNoBackup ==
    spc = "returned" => /\ storage_file = Snapshot(products)
                        /\ backup_file = Absent

\* C9 witness: save_to_file returned normally from a call that found a
\* snapshot and a stale backup beside it.
C9_StaleBackupCleanedUp ==
    /\ spc = "returned"
    /\ IsComplete(pre.file)
    /\ Exists(pre.backup)

\* C10 as stated, for the saves that begin with a complete snapshot under one
\* of the two paths: at every instant of the save one of the two paths holds a
\* complete snapshot.
C10_CompleteSnapshotThroughoutSave ==
    (spc # "none" /\ (IsComplete(pre.file) \/ IsComplete(pre.backup))) =>
        (IsComplete(storage_file) \/ IsComplete(backup_file))

\* C11 as stated: a store constructed on an existing file that is not a
\* readable complete snapshot (unreadable, not valid JSON, malformed, or
\* without a products key) starts with an empty dict; a readable snapshot
\* is loaded.
C11_MalformedFileStartsEmpty ==
    op = "loaded" =>
        /\ products_type = "dict"
        /\ IF IsComplete(storage_file)
           THEN products \in {ParsedProducts(storage_file.products), EmptyMap}
           ELSE products = EmptyMap

\* The entry fields the snapshot must carry over to the next process.
EntryFields == {"id", "title", "price", "url", "image_url", "added_at"}

\* The text holds the dict m: one member per id, and under it one member per
\* field of the entry, with the entry's value.
TextHolds(text, m) ==
    /\ {member[1] : member \in text} = DOMAIN m
    /\ \A member \in text :
          /\ {fv[1] : fv \in member[2]} = DOMAIN m[member[1]]
          /\ \A fv \in member[2] : m[member[1]][fv[1]] = fv[2]

\* C12: after add_product(p) the id of p is known; when save_to_file has
\* written the snapshot, its text holds every entry of the dict with every
\* field; and a store constructed on a snapshot it can read knows every id of
\* the text, with the id, title, price, url, image_url and added_at of the
\* text.
C12_KnownAfterAddAndReload ==
    [][/\ \A p \in Candidates : AddProduct(p) => is_product_known(products', p.id)
       /\ (spc = "dump" /\ spc' = "unlink") => TextHolds(storage_file'.products, products)
       /\ (op = "down" /\ op' = "loaded" /\ failures' = failures
               /\ IsComplete(storage_file)) =>
              \A member \in storage_file.products :
                  /\ is_product_known(products', member[1])
                  /\ \A fv \in member[2] :
                        fv[1] \in EntryFields => products'[member[1]][fv[1]] = fv[2]]_vars

\* C12 witness: a fresh store has loaded a snapshot with an entry that an
\* earlier process added on an earlier day.
C12_EntryLoadedByFreshStore ==
    /\ op = "loaded"
    /\ \E id \in DOMAIN products : products[id].added_at < now

\* C13: whatever send_notifications does (True, False, an exception), from
\* the hand-over to the return of process_query no entry is removed and no
\* entry changes, so the products of the list stay registered with the
\* added_at of their registration.
C13_NotifierOutcomeKeepsRegistration ==
    [][(op \in {"notify"} \cup Sent /\ op' # "down") =>
          /\ products' = products
          /\ \A k \in DOMAIN new_products :
                /\ is_product_known(products', new_products[k].id)
                /\ products'[new_products[k].id].added_at = now]_vars

\* C13 witness: send_notifications has failed (False or an exception) and the
\* products of its list are registered.
C13_FailedNotificationStillKnown ==
    /\ op \in {"sent_false", "sent_raise"}
    /\ new_products # <<>>
    /\ \A k \in DOMAIN new_products : is_product_known(products, new_products[k].id)

\* The filter could not look at the picture: no URL, a failed download or
\* decode, or an error raised after the download.
CannotEvaluate(image) == ~download_image(image) \/ image.outer_error

\* C14: filter_background returns True for an image it cannot evaluate (empty
\* or absent URL, failed download or decode, internal error); a check whose
\* computation raises does not reject the image; and when the filter call
\* raises inside process_query, or the image cannot be evaluated, the product
\* is taken as new (appended to the output and registered).
C14_FailOpen ==
    /\ flt.pc \in {"filtered", "analyzed"} =>
          (CannotEvaluate(flt.image) => flt.verdict)
    /\ (flt.pc = "analyzed" /\ flt.analysis # NoAnalysis) =>
          /\ (flt.image.ratio_error => ~flt.analysis.has_solid_background)
          /\ (flt.image.quality_error /\ flt.image.height >= min_resolution
                 /\ flt.image.width >= min_resolution) => ~flt.analysis.is_low_quality
    /\ flt.pc = "pq" =>
          ((flt.outcome = "raise" \/ CannotEvaluate(flt.image)) => flt.is_new)

\* C14 witness: the filter call raised inside process_query and the product
\* was taken as new.
C14_RaisingFilterCallIncluded ==
    /\ flt.pc = "pq"
    /\ flt.outcome = "raise"
    /\ flt.is_new

\* C15 as stated: for an image fetched and decoded (and analysed without an
\* error), with the filter on or off, filter_background returns the
\* passes_filter of analyze_image, which is not low-quality and not
\* has-solid-background.
C15_VerdictIsPassesFilter ==
    (flt.pc = "analyzed" /\ flt.analysis # NoAnalysis) =>
        /\ flt.verdict = flt.analysis.passes_filter
        /\ flt.analysis.passes_filter =
               (~flt.analysis.is_low_quality /\ ~flt.analysis.has_solid_background)

\* C15 amended: with the filter on, filter_background returns the
\* passes_filter of analyze_image, not low-quality and not
\* has-solid-background; with the filter off, filter_background returns True
\* for every image while analyze_image reports no solid background and
\* passes_filter = not low-quality.
C15_VerdictIsPassesFilterWhenEnabled ==
    (flt.pc = "analyzed" /\ flt.analysis # NoAnalysis) =>
        /\ flt.analysis.passes_filter =
               (~flt.analysis.is_low_quality /\ ~flt.analysis.has_solid_background)
        /\ enabled => flt.verdict = flt.analysis.passes_filter
        /\ ~enabled => /\ flt.verdict
                        /\ ~flt.analysis.has_solid_background
                        /\ flt.analysis.passes_filter = ~flt.analysis.is_low_quality

\* C15 witness: with the filter off a low-quality image passes
\* filter_background while analyze_image reports passes_filter = False.
C15_DisabledFilterPassesLowQuality ==
    /\ flt.pc = "analyzed"
    /\ ~enabled
    /\ flt.analysis # NoAnalysis
    /\ flt.verdict
    /\ ~flt.analysis.passes_filter

SolidBorder(image) == image.avg_variance < solid_variance /\ ~image.ratio_error

C17_LowQualityBySizeOrSharpness ==
    (flt.pc = "analyzed" /\ flt.analysis # NoAnalysis) =>
        IF flt.image.height < 100 \/ flt.image.width < 100
        THEN flt.analysis.is_low_quality
        ELSE ~flt.image.quality_error =>
                 (flt.analysis.is_low_quality <=> flt.image.sharpness < 1000)

\* C17 witness: an image of full size with sharpness exactly 1000 is not
\* low-quality.
C17_ThresholdSharpnessAccepted ==
    /\ flt.pc = "analyzed"
    /\ flt.analysis # NoAnalysis
    /\ flt.image.height >= 100 /\ flt.image.width >= 100
    /\ flt.image.sharpness = 1000
    /\ ~flt.image.quality_error
    /\ ~flt.analysis.is_low_quality

\* C18: in a monitoring cycle (a run_once that found queries)
\* cleanup_old_products is called once, when no query is left, and not while
\* a query or one of its records is being processed; a completed cycle has
\* called it exactly once.
C18_OneSweepAfterLastQuery ==
    /\ cyc.pc \in {"loop", "query"} => cyc.cleanups = 0
    /\ cyc.pc \in {"swept", "done"} => cyc.cleanups = 1 /\ cyc.left = 0
    /\ (cyc.pc # "none" /\ op \in {"pq", "notify"} \cup Sent) => cyc.cleanups = 0
    /\ op = "cleanup" => cyc.pc = "swept"

\* C18 witness: a cycle of MaxQueries queries has completed, and its sweep
\* removed an entry.
C18_CycleCompletedWithSweep ==
    /\ cyc.pc = "swept"
    /\ op = "cleanup"
    /\ removed_count > 0
    /\ pq_products = <<>>

\* C19: when each check-then-insert pair of two interleaved process_query
\* executions is atomic, no id is in both notification lists or twice in one,
\* and no id is registered (assigned in the dict) twice.
C19_AtomicPairNoDuplicates ==
    (conc.pc = "run" /\ conc.atomic) =>
        /\ IdsOf(conc.th[1].new_products) \cap IdsOf(conc.th[2].new_products) = {}
        /\ \A i \in Threads : NoRepeat(conc.th[i].new_products)
        /\ \A id \in Ids : conc.registrations[id] <= 1

\* C19 witness: without mutual exclusion both executions have finished with
\* the same id in their notification lists, and the id was registered twice.
C19_BothListsHoldId ==
    /\ conc.pc = "run"
    /\ ~conc.atomic
    /\ \A i \in Threads : conc.th[i].pc = "done"
    /\ \E id \in Ids :
          /\ id \in IdsOf(conc.th[1].new_products) \cap IdsOf(conc.th[2].new_products)
          /\ conc.registrations[id] = 2

\* C20 as stated: the products process_query registers during a call are
\* the products of the list it hands to send_notifications in that call, so a
\* call that ends without handing a list over (its list is empty, or
\* add_product or its save raised) has registered nothing.
C20_RegisteredProductsAreHandedOver ==
    [][/\ op' = "notify" => IdsOf(new_products') = DOMAIN products' \ DOMAIN known0'
       /\ (op = "pq" /\ op' = "idle") => DOMAIN products \ DOMAIN known0 = {}]_vars

\* The product ids in the snapshot file: none when there is no file or its
\* text is not a complete snapshot.
IdsOnDisk(f) == {member[1] : member \in f.products}

\* C21 as stated: when add_product, cleanup_old_products or
\* clear_all_products finishes, its save having returned or raised, the ids
\* in the dict are the ids in the snapshot file.
C21_MemoryAndSnapshotAgree ==
    (op \in {"add", "cleanup", "clear"} /\ spc \in {"returned", "raised"}) =>
        /\ IsComplete(storage_file)
        /\ IdsOnDisk(storage_file) = DOMAIN products

\* The ids persisted under either of the two paths.
PersistedIds(f, b) == IdsOnDisk(f) \cup IdsOnDisk(b)

\* C22 as stated: no step of a construction (__init__, the load, and the
\* save of _create_empty_storage) takes a persisted entry off the disk; a
\* backup left beside an absent snapshot keeps its entries.
C22_ConstructionKeepsPersistedEntries ==
    [][(op \in {"down", "init"} /\ op' \in {"init", "loaded", "idle"}) =>
          PersistedIds(storage_file, backup_file)
              \subseteq PersistedIds(storage_file', backup_file')]_vars

RECURSIVE Flatten(_)
Flatten(ss) == IF ss = <<>> THEN <<>> ELSE Head(ss) \o Flatten(Tail(ss))

\* C23 as stated: when every Telegram send succeeds, every product of the
\* list passed to send_notifications appears, with title and link, in one of
\* the messages sent, for every list length: the products the messages show,
\* taken in sending order, are the list.
C23_EveryProductShown ==
    (ntf.pc = "returned" /\ \A k \in DOMAIN ntf.attempts : ntf.attempts[k].ok) =>
        Flatten(ntf.messages) = ntf.products

BatchesOf(attempts) == [k \in DOMAIN attempts |-> attempts[k].batch]

\* C24: a list of at most 5 products goes out as one batch; a longer list
\* goes out in batches of at most 3 products which, one after the other, are
\* the list from its start (disjoint, in order, and the whole list when the
\* call returns True); every batch before the last one sent has succeeded, so
\* nothing is sent after a failure; and the call returns True exactly when
\* every batch of the list was sent successfully or the list is empty.
C24_BatchesAndResult ==
    ntf.pc # "none" =>
        LET n == Len(ntf.products)
            sent == Flatten(BatchesOf(ntf.attempts))
            all_ok == \A k \in DOMAIN ntf.attempts : ntf.attempts[k].ok
        IN  /\ \A k \in DOMAIN ntf.attempts :
                  /\ Len(ntf.attempts[k].batch) >= 1
                  /\ IF n <= 5 THEN ntf.attempts[k].batch = ntf.products
                     ELSE Len(ntf.attempts[k].batch) <= 3
                  /\ k < Len(ntf.attempts) => ntf.attempts[k].ok
            /\ n <= 5 => Len(ntf.attempts) <= 1
            /\ Len(sent) <= n
            /\ sent = SubSeq(ntf.products, 1, Len(sent))
            /\ ntf.pc = "returned" =>
                  /\ ntf.result = (all_ok /\ sent = ntf.products)
                  /\ ~ntf.result => ~all_ok

\* A list of 7 products whose second batch failed: the third was never sent.
C24_StoppedAtFailedBatch ==
    /\ ntf.pc = "returned"
    /\ Len(ntf.products) = 7
    /\ Len(ntf.attempts) = 2
    /\ ~ntf.attempts[2].ok
    /\ ntf.result = FALSE

\* C25: process_query lets no exception out: whatever fails while a query is
\* processed (the scraper, the filter, the store, the notifier), a cycle of
\* run_once that has started on its queries goes on through the remaining
\* queries and reaches the call of the cleanup with no query left.
C25_CycleReachesSweep ==
    (cyc.pc \in {"loop", "query"}) ~> (cyc.pc = "swept" /\ cyc.left = 0)

\* The cleanup of a cycle has been called after a query of that cycle ended in
\* the handler of process_query.
C25_SweepAfterHandledFailure ==
    /\ cyc.pc = "swept"
    /\ cyc.failed
    /\ cyc.left = 0
    /\ cyc.cleanups = 1

Unparseable(entries) == {i \in DOMAIN entries : fromisoformat(entries[i]) # "ok"}

\* C26 as stated: cleanup_old_products treats every stored entry whose
\* added_at cannot be parsed as a timestamp as expired: the sweep completes,
\* no such entry is left in the store, and the returned number counts every
\* entry removed.
C26_UnparseableEntriesRemoved ==
    (swp.pc \in {"returned", "raised"} /\ Unparseable(swp.before) # {}) =>
        /\ swp.pc = "returned"
        /\ Unparseable(swp.before) \cap DOMAIN swp.products = {}
        /\ swp.removed_count = Cardinality(DOMAIN swp.before \ DOMAIN swp.products)

\* C27 as stated: MercariMonitor.close saves the product store and then closes
\* the scraper: once close has returned the snapshot holds the known products
\* and the scraper's WebDriver is released, and main ends with no WebDriver
\* left open.
C27_CloseSavesAndReleases ==
    /\ shut.pc = "closed" =>
          /\ IsComplete(storage_file)
          /\ IdsOnDisk(storage_file) = DOMAIN products
          /\ ~shut.driver
    /\ shut.pc = "exited" => ~shut.driver

\* The pixels within border_width of an edge of the image.
Ring(height, width, border_width) ==
    {c \in (0 .. height - 1) \X (0 .. width - 1) :
        \/ c[1] < border_width
        \/ c[1] >= height - border_width
        \/ c[2] < border_width
        \/ c[2] >= width - border_width}

Once(s) == \A i, j \in DOMAIN s : i # j => s[i] # s[j]
Range(s) == {s[k] : k \in DOMAIN s}

\* C28 as stated: for every image size, border sampling with
\* borderWidth = max(1, min(W/10, H/10, 20)) collects each pixel lying within
\* borderWidth of an image edge exactly once and no other pixel: no pixel is
\* in the list twice, and the complete list holds exactly the ring.
C28_BorderPixelsExactlyOnce ==
    smp.pc # "none" =>
        /\ Once(smp.border_pixels)
        /\ Range(smp.border_pixels) \subseteq Ring(smp.height, smp.width, smp.border_width)
        /\ smp.pc = "done" =>
              Range(smp.border_pixels) = Ring(smp.height, smp.width, smp.border_width)

====
